---------------------------- MODULE Spec2Model ----------------------------
(***************************************************************************)
(* Model of the partnership dashboard (Dashboard component and api.jsx).   *)
(*                                                                         *)
(* Conventions                                                             *)
(*   - A JavaScript string whose letter case matters (status) is a         *)
(*     sequence of one-character strings, so that toLowerCase is computed  *)
(*     character by character.  The empty sequence stands for every falsy  *)
(*     value of the field (undefined, null, "").                           *)
(*   - A Date is its day number since 1970-01-01 (UTC).  Absent stands for *)
(*     a missing (falsy) date field.                                       *)
(*   - The record list, filters and flags are the component's useState     *)
(*     cells; the aggregates computed during render are operators over     *)
(*     them and the clock reading `now`.                                   *)
(***************************************************************************)
EXTENDS Integers, Sequences, FiniteSets, TLC

(***************************************************************************)
(* Bounds of the model.                                                    *)
(***************************************************************************)
\* fetches issued in one run (the mount fetch included)
MaxRequests == 3
\* college filter values the user picks among (a prefix of `colleges`)
MaxChoices == 3
\* days the clock advances
MaxTicks == 1

(***************************************************************************)
(* Strings with letter case.                                               *)
(***************************************************************************)
UpperCase ==
  << "A","B","C","D","E","F","G","H","I","J","K","L","M",
     "N","O","P","Q","R","S","T","U","V","W","X","Y","Z" >>

LowerCase ==
  << "a","b","c","d","e","f","g","h","i","j","k","l","m",
     "n","o","p","q","r","s","t","u","v","w","x","y","z" >>

ToLowerChar(c) ==
  IF \E i \in 1..Len(UpperCase) : UpperCase[i] = c
    THEN LowerCase[CHOOSE i \in 1..Len(UpperCase) : UpperCase[i] = c]
    ELSE c

\* String.prototype.toLowerCase
toLowerCase(s) == [i \in 1..Len(s) |-> ToLowerChar(s[i])]

Str_Active       == << "A","c","t","i","v","e" >>
Str_active       == << "a","c","t","i","v","e" >>
Str_expiringSoon == << "e","x","p","i","r","i","n","g","S","o","o","n" >>
Str_expired      == << "e","x","p","i","r","e","d" >>
Str_prospect     == << "p","r","o","s","p","e","c","t" >>
Str_rejected     == << "r","e","j","e","c","t","e","d" >>
Str_pending      == << "p","e","n","d","i","n","g" >>

(***************************************************************************)
(* Dates: the Date methods the dashboard calls, on day numbers.            *)
(***************************************************************************)
Absent == -1

\* day number of the civil date y-m-d, m in 1..12 (proleptic Gregorian)
DaysFromCivil(y, m, d) ==
  LET yy  == IF m <= 2 THEN y - 1 ELSE y
      era == yy \div 400
      yoe == yy - era * 400
      mp  == IF m > 2 THEN m - 3 ELSE m + 9
      doy == (153 * mp + 2) \div 5 + d - 1
      doe == yoe * 365 + yoe \div 4 - yoe \div 100 + doy
  IN  era * 146097 + doe - 719468

\* the civil date of a day number: getFullYear, getMonth (0-based), getDate
CivilFromDays(z) ==
  LET zz  == z + 719468
      era == zz \div 146097
      doe == zz - era * 146097
      yoe == (doe - doe \div 1460 + doe \div 36524 - doe \div 146096) \div 365
      doy == doe - (365 * yoe + yoe \div 4 - yoe \div 100)
      mp  == (5 * doy + 2) \div 153
      d   == doy - (153 * mp + 2) \div 5 + 1
      m   == IF mp < 10 THEN mp + 3 ELSE mp - 9
      y   == yoe + era * 400 + (IF m <= 2 THEN 1 ELSE 0)
  IN  [year |-> y, month |-> m - 1, date |-> d]

getFullYear(t) == CivilFromDays(t).year
getMonth(t)    == CivilFromDays(t).month
getDate(t)     == CivilFromDays(t).date

\* ECMAScript MakeDay: month (0-based) and date may lie outside their ranges
MakeDay(year, month, date) ==
  DaysFromCivil(year + month \div 12, (month % 12) + 1, 1) + date - 1

\* now.setDate(v), now.setMonth(v), now.setFullYear(v): the new time value
setDate(t, v)     == MakeDay(getFullYear(t), getMonth(t), v)
setMonth(t, v)    == MakeDay(getFullYear(t), v, getDate(t))
setFullYear(t, v) == MakeDay(v, getMonth(t), getDate(t))

(***************************************************************************)
(* The component's constants.                                              *)
(***************************************************************************)
AllColleges == "All Colleges"

colleges ==
  << "All Colleges",
     "Central",
     "College of Business and Economics",
     "College of Social Science, Arts and Humanities",
     "College of Veterinary Medicine and Agriculture",
     "School of Law",
     "College of Technology and Built Environment",
     "College of Education and Language Studies",
     "College of Health Science" >>

TimeFilters == {"Weekly", "Monthly", "Yearly", "All Times"}

\* the options of the college <select> the model's user picks among
CollegeChoices ==
  {colleges[i] : i \in 1..(IF MaxChoices < Len(colleges) THEN MaxChoices ELSE Len(colleges))}

(***************************************************************************)
(* Partnership records as the dashboard reads them: status,                *)
(* expirationDate, createdAt, aauContact.interestedCollegeOrDepartment     *)
(* (college; "" when missing) and partnerInstitution.country.              *)
(***************************************************************************)
Rec(st, ex, cr, co) ==
  [status |-> st, expirationDate |-> ex, createdAt |-> cr, college |-> co,
   country |-> << >>]

\* the clock reading at construction of the lifecycle specification
Now0 == DaysFromCivil(2024, 3, 31)

\* clock readings of the status-derivation specification
Nows ==
  {DaysFromCivil(2024, 3, 31), DaysFromCivil(2025, 3, 15), DaysFromCivil(2025, 1, 15)}

\* the lists the server returns in the lifecycle specification
ServerLists ==
  { << >>,
    << Rec(Str_Active, Now0 + 10, Now0 - 3, "Central") >>,
    << Rec(Str_pending, Absent, Now0 - 3, "College of Business and Economics"),
       Rec(Str_Active, Now0 + 10, Now0 - 3, "Central") >> }

Statuses ==
  { << >>, Str_Active, Str_active,
    << "A","C","T","I","V","E" >>,
    << "R","e","j","e","c","t","e","d" >>,
    << "R","E","J","E","C","T","E","D" >>,
    << "P","e","n","d","i","n","g" >>,
    << "p","E","N","D","I","N","G" >>,
    << "S","i","g","n","e","d" >> }

ExpirationOffsets == {-5, 10, 30, 31, 60}

CreatedOffsets == {0, -7, -8, -28, -32, -400}

\* the records of the status-derivation specification, around clock reading n
DeriveRecords(n) ==
  { Rec(st, ex, cr, "Central") :
      st \in Statuses,
      ex \in {Absent} \cup {n + o : o \in ExpirationOffsets},
      cr \in {Absent} \cup {n + o : o \in CreatedOffsets} }

(***************************************************************************)
(* State of the Dashboard component.                                       *)
(***************************************************************************)
VARIABLES
  timeFilter,     \* useState("Monthly")
  collegeFilter,  \* useState("All Colleges")
  partnerships,   \* useState([])
  loading,        \* useState(true)
  mapData,        \* useState(null): "null" or "geoJson"
  mapPending,     \* the fetch(geoUrl) promise has not settled
  inflight,       \* getPartnerships calls whose promise has not settled
  issued,         \* number of getPartnerships calls made so far
  toasts,         \* number of toast.error notifications shown by the dashboard
  lastSettle,     \* history: the getPartnerships call that settled last
  listOf,         \* history: the call whose handler last called setPartnerships
  now,            \* the clock reading new Date() returns
  localStorage,   \* window.localStorage: a function from keys to strings
  wire,           \* the API requests handed to the network and not yet settled
  edit,           \* the EditPartnership page: its state and its route
  reset           \* the ResetPassword page: its state and its route

vars ==
  << timeFilter, collegeFilter, partnerships, loading, mapData, mapPending,
     inflight, issued, toasts, lastSettle, listOf, now,
     localStorage, wire, edit, reset >>

\* what the dashboard's handlers leave alone: the storage, the other pages
\* and their requests
otherPages == << localStorage, wire, edit, reset >>

\* a page that is not on screen
Unmounted == [mounted |-> FALSE]

\* while the dashboard is on screen: no token stored, no other page mounted
DashboardOnly ==
  /\ localStorage = << >>
  /\ wire = << >>
  /\ edit = Unmounted
  /\ reset = Unmounted

\* params of getPartnerships(params), as a set of <<key, value>> pairs
Params(cf) == IF cf # AllColleges THEN {<< "college", cf >>} ELSE {}

\* the call issued by the effect for college filter cf
Request(i, cf) == [id |-> i, college |-> cf, params |-> Params(cf)]

\* state after the first render and both mount effects
Init ==
  /\ timeFilter = "Monthly"
  /\ collegeFilter = AllColleges
  /\ partnerships = << >>
  /\ loading = TRUE
  /\ mapData = "null"
  /\ mapPending = TRUE
  /\ inflight = {Request(1, AllColleges)}
  /\ issued = 1
  /\ toasts = 0
  /\ lastSettle = [id |-> 0, college |-> AllColleges, ok |-> TRUE]
  /\ listOf = [id |-> 0, college |-> AllColleges]
  /\ now = Now0
  /\ DashboardOnly

\* response bodies: response.data.partnerships is an array of records or not
Responses ==
  {[isArray |-> FALSE, items |-> << >>]} \cup
  {[isArray |-> TRUE, items |-> l] : l \in ServerLists}

\* <select onChange> followed by the [collegeFilter] effect up to its await
SetCollegeFilter(c) ==
  /\ c # collegeFilter
  /\ issued < MaxRequests
  /\ collegeFilter' = c
  /\ loading' = TRUE
  /\ issued' = issued + 1
  /\ inflight' = inflight \cup {Request(issued + 1, c)}
  /\ UNCHANGED << timeFilter, partnerships, mapData, mapPending, toasts,
                  lastSettle, listOf, now >>
  /\ UNCHANGED otherPages

\* FetchResolved as it would be if a response were dropped once a later call
\* has been issued
FetchResolved_IgnoreStale(r, body) ==
  /\ r \in inflight
  /\ inflight' = inflight \ {r}
  /\ partnerships' =
       (IF r.id # issued THEN partnerships
        ELSE IF body.isArray THEN body.items ELSE << >>)
  /\ listOf' = (IF r.id # issued THEN listOf ELSE [id |-> r.id, college |-> r.college])
  /\ loading' = (IF r.id # issued THEN loading ELSE FALSE)
  /\ lastSettle' = [id |-> r.id, college |-> r.college, ok |-> TRUE]
  /\ UNCHANGED << timeFilter, collegeFilter, mapData, mapPending, issued,
                  toasts, now >>
  /\ UNCHANGED otherPages

\* the await of call r resolves with body: the rest of the try block
FetchResolved(r, body) ==
  /\ r \in inflight
  /\ inflight' = inflight \ {r}
  /\ partnerships' = (IF body.isArray THEN body.items ELSE << >>)
  /\ listOf' = [id |-> r.id, college |-> r.college]
  /\ loading' = FALSE
  /\ lastSettle' = [id |-> r.id, college |-> r.college, ok |-> TRUE]
  /\ UNCHANGED << timeFilter, collegeFilter, mapData, mapPending, issued,
                  toasts, now >>
  /\ UNCHANGED otherPages

\* FetchRejected as it would be if the catch block left the loading flag alone
FetchRejected_StaysLoading(r) ==
  /\ r \in inflight
  /\ inflight' = inflight \ {r}
  /\ toasts' = toasts + 1
  /\ partnerships' = << >>
  /\ listOf' = [id |-> r.id, college |-> r.college]
  /\ lastSettle' = [id |-> r.id, college |-> r.college, ok |-> FALSE]
  /\ UNCHANGED << timeFilter, collegeFilter, loading, mapData, mapPending,
                  issued, now >>
  /\ UNCHANGED otherPages

\* the await of call r rejects: the catch block
FetchRejected(r) ==
  /\ r \in inflight
  /\ inflight' = inflight \ {r}
  /\ toasts' = toasts + 1
  /\ partnerships' = << >>
  /\ listOf' = [id |-> r.id, college |-> r.college]
  /\ loading' = FALSE
  /\ lastSettle' = [id |-> r.id, college |-> r.college, ok |-> FALSE]
  /\ UNCHANGED << timeFilter, collegeFilter, mapData, mapPending, issued, now >>
  /\ UNCHANGED otherPages

\* SetTimeFilter as it would be if the effect that fetches also depended on
\* timeFilter
SetTimeFilter_Refetches(f) ==
  /\ f # timeFilter
  /\ issued < MaxRequests
  /\ timeFilter' = f
  /\ loading' = TRUE
  /\ issued' = issued + 1
  /\ inflight' = inflight \cup {Request(issued + 1, collegeFilter)}
  /\ UNCHANGED << collegeFilter, partnerships, mapData, mapPending, toasts,
                  lastSettle, listOf, now >>
  /\ UNCHANGED otherPages

\* a time filter button's onClick
SetTimeFilter(f) ==
  /\ f # timeFilter
  /\ timeFilter' = f
  /\ UNCHANGED << collegeFilter, partnerships, loading, mapData, mapPending,
                  inflight, issued, toasts, lastSettle, listOf, now >>
  /\ UNCHANGED otherPages

\* fetch(geoUrl) resolved and was converted to a feature collection
MapLoaded ==
  /\ mapPending
  /\ mapPending' = FALSE
  /\ mapData' = "geoJson"
  /\ UNCHANGED << timeFilter, collegeFilter, partnerships, loading, inflight,
                  issued, toasts, lastSettle, listOf, now >>
  /\ UNCHANGED otherPages

\* MapFailed as it would be if the catch callback also cleared the list
MapFailed_ClearsList ==
  /\ mapPending
  /\ mapPending' = FALSE
  /\ mapData' = "null"
  /\ partnerships' = << >>
  /\ UNCHANGED << timeFilter, collegeFilter, loading, inflight,
                  issued, toasts, lastSettle, listOf, now >>
  /\ UNCHANGED otherPages

\* fetch(geoUrl) failed (rejected, or response not ok): the catch callback
MapFailed ==
  /\ mapPending
  /\ mapPending' = FALSE
  /\ mapData' = "null"
  /\ UNCHANGED << timeFilter, collegeFilter, partnerships, loading, inflight,
                  issued, toasts, lastSettle, listOf, now >>
  /\ UNCHANGED otherPages

\* a day passes: the next render's new Date() reads a later clock
Tick ==
  /\ \E n \in Nows : n <= now /\ now < n + MaxTicks
  /\ now' = now + 1
  /\ UNCHANGED << timeFilter, collegeFilter, partnerships, loading, mapData,
                  mapPending, inflight, issued, toasts, lastSettle, listOf >>
  /\ UNCHANGED otherPages

Settle(r) ==
  \/ \E body \in Responses : FetchResolved(r, body)
  \/ FetchRejected(r)

Next ==
  \/ \E c \in CollegeChoices : SetCollegeFilter(c)
  \/ \E r \in inflight, body \in Responses : FetchResolved(r, body)
  \/ \E r \in inflight : FetchRejected(r)
  \/ \E f \in TimeFilters : SetTimeFilter(f)
  \/ MapLoaded
  \/ MapFailed

Spec == Init /\ [][Next]_vars

\* every issued getPartnerships call eventually resolves or rejects
FairSpec == Spec /\ \A i \in 1..MaxRequests : \A c \in CollegeChoices :
              WF_vars(Settle(Request(i, c)))

(***************************************************************************)
(* processChartData: the time window and the derived status.               *)
(***************************************************************************)
\* startDate after the if-chain on timeFilter, for clock reading n
StartDate(tf, n) ==
  CASE tf = "Weekly"  -> setDate(n, getDate(n) - 7)
    [] tf = "Monthly" -> setMonth(n, getMonth(n) - 1)
    [] tf = "Yearly"  -> setFullYear(n, getFullYear(n) - 1)
    [] OTHER          -> 0

\* the time value of the Date object `now` after the if-chain: setDate,
\* setMonth and setFullYear change the object they are called on
NowAfterStartDate(tf, n) ==
  CASE tf = "Weekly"  -> setDate(n, getDate(n) - 7)
    [] tf = "Monthly" -> setMonth(n, getMonth(n) - 1)
    [] tf = "Yearly"  -> setFullYear(n, getFullYear(n) - 1)
    [] OTHER          -> n

\* filteredPartnerships as it would be with > for >=
filteredPartnerships_Strict(ps, tf, n) ==
  SelectSeq(ps, LAMBDA p : p.createdAt # Absent /\ p.createdAt > StartDate(tf, n))

filteredPartnerships(ps, tf, n) ==
  SelectSeq(ps, LAMBDA p : p.createdAt # Absent /\ p.createdAt >= StartDate(tf, n))

\* days until expiration at or below which an Active record is expiring soon
ExpiringSoonDays == 30

\* derivedStatus as it would be without the toLowerCase of the status
ChartDerivedStatus_NoLowerCase(p, nowv) ==
  LET d0 == IF p.status # << >> THEN p.status ELSE Str_pending
  IN  IF p.expirationDate # Absent /\ p.status = Str_Active
        THEN (IF p.expirationDate - nowv <= ExpiringSoonDays
                THEN Str_expiringSoon ELSE Str_active)
      ELSE IF d0 = Str_rejected THEN Str_expired
      ELSE IF d0 = Str_pending THEN Str_prospect
      ELSE d0

\* derivedStatus as it would be if the expiration test came first for every status
ChartDerivedStatus_AnyStatusExpires(p, nowv) ==
  LET d0 == IF p.status # << >> THEN toLowerCase(p.status) ELSE Str_pending
  IN  IF p.expirationDate # Absent
        THEN (IF p.expirationDate - nowv <= ExpiringSoonDays
                THEN Str_expiringSoon ELSE Str_active)
      ELSE IF d0 = Str_rejected THEN Str_expired
      ELSE IF d0 = Str_pending THEN Str_prospect
      ELSE d0

\* derivedStatus as it would be with no default for a missing status
ChartDerivedStatus_NoDefault(p, nowv) ==
  LET d0 == toLowerCase(p.status)
  IN  IF p.expirationDate # Absent /\ p.status = Str_Active
        THEN (IF p.expirationDate - nowv <= ExpiringSoonDays
                THEN Str_expiringSoon ELSE Str_active)
      ELSE IF d0 = Str_rejected THEN Str_expired
      ELSE IF d0 = Str_pending THEN Str_prospect
      ELSE d0

\* derivedStatus of record p in processChartData, nowv being the time value
\* of `now` when the map callback runs
ChartDerivedStatus(p, nowv) ==
  LET d0 == IF p.status # << >> THEN toLowerCase(p.status) ELSE Str_pending
  IN  IF p.expirationDate # Absent /\ p.status = Str_Active
        THEN (IF p.expirationDate - nowv <= ExpiringSoonDays
                THEN Str_expiringSoon ELSE Str_active)
      ELSE IF d0 = Str_rejected THEN Str_expired
      ELSE IF d0 = Str_pending THEN Str_prospect
      ELSE d0

\* processedPartnerships: each time-windowed record with its derivedStatus
processedPartnerships(ps, tf, n) ==
  LET f == filteredPartnerships(ps, tf, n)
  IN  [i \in 1..Len(f) |->
        [rec |-> f[i],
         derivedStatus |-> ChartDerivedStatus(f[i], NowAfterStartDate(tf, n))]]

(***************************************************************************)
(* processLineData: the derived status.                                    *)
(***************************************************************************)
\* derivedStatus of record p in processLineData, for clock reading n
LineDerivedStatus(p, n) ==
  LET d0 == IF p.status # << >> THEN toLowerCase(p.status) ELSE Str_pending
  IN  IF p.expirationDate # Absent /\ p.status = Str_Active
        THEN (IF p.expirationDate - n <= ExpiringSoonDays
                THEN Str_expiringSoon ELSE Str_active)
      ELSE IF d0 = Str_rejected THEN Str_expired
      ELSE IF d0 = Str_pending THEN Str_prospect
      ELSE d0

\* the records the forEach of processLineData does not skip, each with its
\* derivedStatus
lineProcessed(ps, n) ==
  LET f == SelectSeq(ps, LAMBDA p : p.createdAt # Absent /\ p.college # "")
  IN  [i \in 1..Len(f) |->
        [rec |-> f[i], derivedStatus |-> LineDerivedStatus(f[i], n)]]

(***************************************************************************)
(* The status-derivation specification: the dashboard once a fetch has     *)
(* resolved with one record, under every time filter and clock reading.    *)
(***************************************************************************)
InitDerive ==
  /\ timeFilter = "Monthly"
  /\ collegeFilter \in CollegeChoices
  /\ now \in Nows
  /\ partnerships \in {<< p >> : p \in DeriveRecords(now)}
  /\ loading = FALSE
  /\ mapData = "null"
  /\ mapPending = TRUE
  /\ inflight = {}
  /\ issued = (IF collegeFilter = AllColleges THEN 1 ELSE 2)
  /\ toasts = 0
  /\ lastSettle = [id |-> issued, college |-> collegeFilter, ok |-> TRUE]
  /\ listOf = [id |-> issued, college |-> collegeFilter]
  /\ DashboardOnly

NextDerive ==
  \/ \E f \in TimeFilters : SetTimeFilter(f)
  \/ Tick

SpecDerive == InitDerive /\ [][NextDerive]_vars

(***************************************************************************)
(* C1: a change of the college filter leaves every earlier call in flight, *)
(* and the record list always holds the outcome of the call that settled   *)
(* last, whatever the order the calls were issued in; so the list shown    *)
(* once all calls have settled can come from a call made for another       *)
(* college than the one selected.                                          *)
(***************************************************************************)
C1_LastResponseWins ==
  /\ [](listOf.id = lastSettle.id)
  /\ [][collegeFilter' # collegeFilter =>
          (inflight \subseteq inflight' /\ partnerships' = partnerships)]_vars

C1_Witness ==
  /\ inflight = {}
  /\ issued > 1
  /\ lastSettle.id < issued
  /\ listOf.id = lastSettle.id
  /\ listOf.college # collegeFilter

(***************************************************************************)
(* C2: loading is true exactly while some issued call has not settled.     *)
(***************************************************************************)
C2_LoadingIffInFlight == loading <=> (inflight # {})

(***************************************************************************)
(* C3: a failed partnership fetch leaves loading = false, an empty record  *)
(* list and one more error notification; loading is false whenever no      *)
(* fetch is outstanding; and, every fetch settling eventually, the         *)
(* dashboard reaches loading = false.                                      *)
(***************************************************************************)
C3_FailureReachesReady ==
  /\ [][(lastSettle' # lastSettle /\ ~lastSettle'.ok) =>
          (loading' = FALSE /\ partnerships' = << >> /\ toasts' = toasts + 1)]_vars
  /\ [](inflight = {} => loading = FALSE)
  /\ (loading = TRUE) ~> (loading = FALSE)

C3_Witness ==
  /\ ~lastSettle.ok
  /\ inflight = {}
  /\ loading = FALSE
  /\ partnerships = << >>
  /\ toasts > 0

(***************************************************************************)
(* The four buckets, and the aggregations' results on the current state.   *)
(***************************************************************************)
Buckets == {Str_active, Str_expiringSoon, Str_expired, Str_prospect}

chartNow == processedPartnerships(partnerships, timeFilter, now)

lineNow == lineProcessed(partnerships, now)

(***************************************************************************)
(* C4: in processChartData, under every time filter, an "Active" record    *)
(* with an expirationDate is expiringSoon if and only if its expirationDate*)
(* is at most 30 days after the current instant, and active otherwise.     *)
(***************************************************************************)
C4_ExpiringSoonWithin30Days ==
  \A i \in DOMAIN chartNow :
    LET p == chartNow[i].rec
    IN  (p.status = Str_Active /\ p.expirationDate # Absent) =>
          chartNow[i].derivedStatus =
            (IF p.expirationDate - now <= 30 THEN Str_expiringSoon ELSE Str_active)

(***************************************************************************)
(* C5: for the same record and clock reading, processChartData and         *)
(* processLineData derive the same status, whatever the time filter.       *)
(***************************************************************************)
C5_SameStatusInBothAggregations ==
  \A i \in DOMAIN chartNow : \A j \in DOMAIN lineNow :
    chartNow[i].rec = lineNow[j].rec =>
      chartNow[i].derivedStatus = lineNow[j].derivedStatus

(***************************************************************************)
(* C6: every record the aggregations process gets one derived status: its *)
(* lowercased status when the status is none of Active-with-expiration,    *)
(* rejected, pending or missing, and one of the four buckets otherwise.    *)
(***************************************************************************)
IsFallbackCase(p) ==
  /\ ~(p.status = Str_Active /\ p.expirationDate # Absent)
  /\ toLowerCase(p.status) \notin {Str_rejected, Str_pending}
  /\ p.status # << >>

BucketOrFallback(p, d) ==
  IF IsFallbackCase(p) THEN d = toLowerCase(p.status) ELSE d \in Buckets

C6_OneBucketOrFallback ==
  /\ Len(chartNow) = Len(filteredPartnerships(partnerships, timeFilter, now))
  /\ \A i \in DOMAIN chartNow :
       BucketOrFallback(chartNow[i].rec, chartNow[i].derivedStatus)
  /\ \A j \in DOMAIN lineNow :
       BucketOrFallback(lineNow[j].rec, lineNow[j].derivedStatus)

C6_Witness ==
  /\ timeFilter = "Yearly"
  /\ \E i \in DOMAIN chartNow :
       /\ IsFallbackCase(chartNow[i].rec)
       /\ chartNow[i].derivedStatus = << "s","i","g","n","e","d" >>
       /\ chartNow[i].derivedStatus \notin Buckets

(***************************************************************************)
(* C7: a record whose status is "Rejected" in any letter case is expired,  *)
(* with or without an expirationDate, past or future.                      *)
(***************************************************************************)
C7_RejectedIsExpired ==
  /\ \A i \in DOMAIN chartNow :
       toLowerCase(chartNow[i].rec.status) = Str_rejected =>
         chartNow[i].derivedStatus = Str_expired
  /\ \A j \in DOMAIN lineNow :
       toLowerCase(lineNow[j].rec.status) = Str_rejected =>
         lineNow[j].derivedStatus = Str_expired

C7_Witness ==
  \E i \in DOMAIN chartNow :
    /\ chartNow[i].rec.status = << "R","E","J","E","C","T","E","D" >>
    /\ chartNow[i].rec.expirationDate > now + 30
    /\ chartNow[i].derivedStatus = Str_expired

(***************************************************************************)
(* C8: a record whose status is "Pending" in any letter case, or missing   *)
(* or empty, is prospect, with or without an expirationDate.               *)
(***************************************************************************)
C8_PendingOrMissingIsProspect ==
  /\ \A i \in DOMAIN chartNow :
       (toLowerCase(chartNow[i].rec.status) = Str_pending
          \/ chartNow[i].rec.status = << >>) =>
         chartNow[i].derivedStatus = Str_prospect
  /\ \A j \in DOMAIN lineNow :
       (toLowerCase(lineNow[j].rec.status) = Str_pending
          \/ lineNow[j].rec.status = << >>) =>
         lineNow[j].derivedStatus = Str_prospect

C8_Witness ==
  \E i \in DOMAIN chartNow :
    /\ chartNow[i].rec.status = << >>
    /\ chartNow[i].rec.expirationDate # Absent
    /\ chartNow[i].derivedStatus = Str_prospect

(***************************************************************************)
(* C9: two records that differ only in the letter case of their status get *)
(* the same derived status.                                                *)
(***************************************************************************)
C9_CaseInsensitiveStatus ==
  \A j \in DOMAIN lineNow : \A s \in Statuses :
    toLowerCase(s) = toLowerCase(lineNow[j].rec.status) =>
      LineDerivedStatus([lineNow[j].rec EXCEPT !.status = s], now)
        = lineNow[j].derivedStatus

(***************************************************************************)
(* C10: startDate is now minus 7 days (Weekly), the same day of the        *)
(* previous month (Monthly), the same day of the previous year (Yearly),   *)
(* or the epoch (All Times); processChartData keeps exactly the records    *)
(* that have a createdAt not before startDate, in their order.             *)
(***************************************************************************)
ClaimedStart ==
  LET c == CivilFromDays(now)
  IN  CASE timeFilter = "Weekly"  -> now - 7
        [] timeFilter = "Monthly" ->
             (IF c.month = 0
                THEN DaysFromCivil(c.year - 1, 12, 1)
                ELSE DaysFromCivil(c.year, c.month, 1)) + c.date - 1
        [] timeFilter = "Yearly"  ->
             DaysFromCivil(c.year - 1, c.month + 1, 1) + c.date - 1
        [] timeFilter = "All Times" -> 0

InWindow(p) == p.createdAt # Absent /\ p.createdAt >= ClaimedStart

C10_TimeWindow ==
  LET f == filteredPartnerships(partnerships, timeFilter, now)
  IN  /\ StartDate(timeFilter, now) = ClaimedStart
      /\ Len(f) = Cardinality({i \in DOMAIN partnerships : InWindow(partnerships[i])})
      /\ \A k \in DOMAIN f : InWindow(f[k])
      /\ \A i \in DOMAIN partnerships :
           InWindow(partnerships[i]) => \E k \in DOMAIN f : f[k] = partnerships[i]

C10_Witness ==
  /\ timeFilter = "Weekly"
  /\ Len(partnerships) > 0
  /\ partnerships[1].createdAt = now - 7
  /\ Len(filteredPartnerships(partnerships, timeFilter, now)) = 1

(***************************************************************************)
(* processChartData: collegeData and totalData.                            *)
(***************************************************************************)
\* the 8 named colleges: `colleges` without the "All Colleges" entry
NamedColleges == {colleges[i] : i \in 2..Len(colleges)}

\* processedPartnerships as (position, college, derivedStatus) entries
chartEntries(ps, tf, n) ==
  LET pp == processedPartnerships(ps, tf, n)
  IN  { [i |-> i, college |-> pp[i].rec.college, derivedStatus |-> pp[i].derivedStatus]
        : i \in DOMAIN pp }

\* collegeData as it would be if the "All Colleges" filter did not widen the
\* per-college selection
collegeData_OwnCollegeOnly(ps, tf, cf, n) ==
  LET es == chartEntries(ps, tf, n)
      Of(c, st) == Cardinality({e \in es : e.college = c /\ e.derivedStatus = st})
  IN  [c \in NamedColleges |->
        [active       |-> Of(c, Str_active),
         expiringSoon |-> Of(c, Str_expiringSoon),
         expired      |-> Of(c, Str_expired),
         prospect     |-> Of(c, Str_prospect)]]

\* collegeData: for each named college the counts of its collegePartnerships
\* per derived status
collegeData(ps, tf, cf, n) ==
  LET es == chartEntries(ps, tf, n)
      Of(c, st) ==
        Cardinality({e \in es :
          (e.college = c \/ cf = AllColleges) /\ e.derivedStatus = st})
  IN  [c \in NamedColleges |->
        [active       |-> Of(c, Str_active),
         expiringSoon |-> Of(c, Str_expiringSoon),
         expired      |-> Of(c, Str_expired),
         prospect     |-> Of(c, Str_prospect)]]

\* totalData: the reduce over processedPartnerships, an object keyed by
\* derived status that starts with the four buckets at 0
totalData(ps, tf, n) ==
  LET pp == processedPartnerships(ps, tf, n)
  IN  [k \in Buckets \cup {pp[i].derivedStatus : i \in DOMAIN pp} |->
        Cardinality({i \in DOMAIN pp : pp[i].derivedStatus = k})]

(***************************************************************************)
(* The aggregation specification: the dashboard once a fetch has resolved  *)
(* with a list of records, under every time filter.                        *)
(***************************************************************************)
\* records in the list of the aggregation specifications
MaxRecords == 2

\* clock readings of the aggregation specification
AggNows == {DaysFromCivil(2024, 3, 31), DaysFromCivil(2025, 1, 15)}

\* the records of the aggregation specification, around clock reading n
AggRecords(n) ==
  LET y == getFullYear(n)
      m == getMonth(n)
      Signed == << "S","i","g","n","e","d" >>
  IN  { Rec(st[1], st[2], n - 3, co) :
          st \in { << Str_Active, n + 60 >>, << Str_pending, Absent >>,
                   << Signed, Absent >> },
          co \in {"Central", "College of Business and Economics"} }
      \cup
      { Rec(Str_pending, Absent, n - 3, co) :
          co \in {"", "Department of Physics", AllColleges} }
      \cup
      { Rec(Str_pending, Absent, cr, "Central") :
          cr \in { Absent, n - 40, MakeDay(y, m - 11, 1), MakeDay(y - 1, m, 1),
                   MakeDay(y, m + 1, 1) } }

\* all lists of at most k elements of S
ListsUpTo(S, k) == UNION {[1..j -> S] : j \in 0..k}

InitAgg ==
  /\ timeFilter = "Monthly"
  /\ collegeFilter \in CollegeChoices
  /\ now \in AggNows
  /\ partnerships \in ListsUpTo(AggRecords(now), MaxRecords)
  /\ loading = FALSE
  /\ mapData = "null"
  /\ mapPending = TRUE
  /\ inflight = {}
  /\ issued = (IF collegeFilter = AllColleges THEN 1 ELSE 2)
  /\ toasts = 0
  /\ lastSettle = [id |-> issued, college |-> collegeFilter, ok |-> TRUE]
  /\ listOf = [id |-> issued, college |-> collegeFilter]
  /\ DashboardOnly

NextAgg == \E f \in TimeFilters : SetTimeFilter(f)

SpecAgg == InitAgg /\ [][NextAgg]_vars

collegeDataNow == collegeData(partnerships, timeFilter, collegeFilter, now)

totalDataNow == totalData(partnerships, timeFilter, now)

(***************************************************************************)
(* C12: collegeData has one entry for each of the 8 named colleges and     *)
(* none for "All Colleges"; the entry of college c counts, per derived     *)
(* status, the time-windowed records of college c, or all time-windowed    *)
(* records when the college filter is "All Colleges".                      *)
(***************************************************************************)
C12_Counted ==
  { [i |-> i,
     college |-> partnerships[i].college,
     derivedStatus |->
       ChartDerivedStatus(partnerships[i], NowAfterStartDate(timeFilter, now))]
    : i \in {k \in DOMAIN partnerships : InWindow(partnerships[k])} }

C12_CollegeData ==
  LET d == collegeDataNow
      counted == C12_Counted
      N(c, st) ==
        Cardinality({e \in counted :
          (collegeFilter = AllColleges \/ e.college = c) /\ e.derivedStatus = st})
  IN  /\ DOMAIN d = {colleges[i] : i \in 1..Len(colleges)} \ {"All Colleges"}
      /\ Cardinality(DOMAIN d) = 8
      /\ \A c \in DOMAIN d :
           /\ d[c].active = N(c, Str_active)
           /\ d[c].expiringSoon = N(c, Str_expiringSoon)
           /\ d[c].expired = N(c, Str_expired)
           /\ d[c].prospect = N(c, Str_prospect)

C12_Witness ==
  /\ collegeFilter = AllColleges
  /\ timeFilter = "Weekly"
  /\ collegeDataNow["School of Law"].prospect = 2
  /\ \E i \in DOMAIN partnerships : partnerships[i].college = "Central"
  /\ \A i \in DOMAIN partnerships : partnerships[i].college # "School of Law"

(***************************************************************************)
(* C13: totalData has exactly the four keys active, expiringSoon, expired  *)
(* and prospect, and its four counts sum to the number of time-windowed    *)
(* records.                                                                *)
(***************************************************************************)
C13_TotalDataFourTuple ==
  /\ DOMAIN totalDataNow = Buckets
  /\ totalDataNow[Str_active] + totalDataNow[Str_expiringSoon]
       + totalDataNow[Str_expired] + totalDataNow[Str_prospect]
       = Cardinality({i \in DOMAIN partnerships : InWindow(partnerships[i])})

(***************************************************************************)
(* processLineData: the monthly series.                                    *)
(***************************************************************************)
\* the keys of lineDataByCollege: "All Colleges" and the 8 named colleges
LineKeys == {colleges[i] : i \in 1..Len(colleges)}

\* monthIndex as it would be with the window ending one month early
monthIndex_EndsLastMonth(p, n) ==
  (getFullYear(p.createdAt) - getFullYear(n)) * 12
    + getMonth(p.createdAt) - (getMonth(n) - 10)

\* monthIndex of record p (with a createdAt), for clock reading n
monthIndex(p, n) ==
  (getFullYear(p.createdAt) - getFullYear(n)) * 12
    + getMonth(p.createdAt) - (getMonth(n) - 11)

\* record p reaches the two increments of the forEach callback
lineIncrements(p, cf, n) ==
  /\ p.createdAt # Absent
  /\ p.college # ""
  /\ monthIndex(p, n) >= 0
  /\ monthIndex(p, n) < 12
  /\ (cf = AllColleges \/ p.college = cf)

\* what the forEach callback computes for each record (i: its position):
\* whether it reaches the increments, and the three subscripts they use
lineEntries(ps, cf, n) ==
  { [i |-> i,
     inc |-> lineIncrements(ps[i], cf, n),
     college |-> ps[i].college,
     derivedStatus |-> LineDerivedStatus(ps[i], n),
     monthIndex |-> IF ps[i].createdAt # Absent THEN monthIndex(ps[i], n) ELSE -1]
    : i \in DOMAIN ps }

\* an increment reads [derivedStatus] or [monthIndex] of undefined: the
\* TypeError ends processLineData and the render
lineThrows(es) ==
  \E e \in es :
    /\ e.inc
    /\ \/ e.college \notin LineKeys
       \/ e.derivedStatus \notin Buckets

\* lineDataByCollege after the forEach, when no increment throws: slot k + 1
\* of a sequence holds [k] of the array; a record adds one to its own
\* college's array and one to the "All Colleges" array
lineDataByCollege(es) ==
  LET Own(key, st, k) ==
        Cardinality({e \in es :
          e.inc /\ e.college = key /\ e.derivedStatus = st /\ e.monthIndex = k})
      All(st, k) ==
        Cardinality({e \in es :
          e.inc /\ e.derivedStatus = st /\ e.monthIndex = k})
  IN  [key \in LineKeys |->
        [st \in Buckets |->
          [j \in 1..12 |->
            Own(key, st, j - 1) + (IF key = AllColleges THEN All(st, j - 1) ELSE 0)]]]

\* processLineData: it throws, or returns lineDataByCollege
processLineData(ps, cf, n) ==
  LET es == lineEntries(ps, cf, n)
  IN  IF lineThrows(es)
        THEN [threw |-> TRUE, lineDataByCollege |-> << >>]
        ELSE [threw |-> FALSE, lineDataByCollege |-> lineDataByCollege(es)]

lineDataNow == processLineData(partnerships, collegeFilter, now)

(***************************************************************************)
(* C14: whenever the monthly series is produced, a record counted by it    *)
(* that was created d calendar months before the current month, d in       *)
(* 0..11, is counted at index 11 - d (the current month at 11, 11 months   *)
(* ago at 0), and nothing else is counted: a record created 12 months ago  *)
(* or in a later month than the current one is in no slot.                 *)
(***************************************************************************)
MonthsAgo(p) ==
  (CivilFromDays(now).year * 12 + CivilFromDays(now).month)
    - (CivilFromDays(p.createdAt).year * 12 + CivilFromDays(p.createdAt).month)

C14_Eligible(p) ==
  /\ p.createdAt # Absent
  /\ p.college # ""
  /\ (collegeFilter = AllColleges \/ p.college = collegeFilter)

C14_Counted ==
  { [i |-> i,
     college |-> partnerships[i].college,
     derivedStatus |-> LineDerivedStatus(partnerships[i], now),
     monthsAgo |-> MonthsAgo(partnerships[i])]
    : i \in {k \in DOMAIN partnerships : C14_Eligible(partnerships[k])} }

C14_MonthIndex ==
  LET r == lineDataNow
      counted == C14_Counted
  IN  ~r.threw =>
        /\ \A e \in counted :
             e.monthsAgo \in 0..11 =>
               r.lineDataByCollege[e.college][e.derivedStatus][(11 - e.monthsAgo) + 1] >= 1
        /\ \A c \in NamedColleges : \A st \in Buckets : \A j \in 1..12 :
             r.lineDataByCollege[c][st][j] =
               Cardinality({e \in counted :
                 e.college = c /\ e.derivedStatus = st /\ e.monthsAgo = 12 - j})

C14_Witness ==
  /\ ~lineDataNow.threw
  /\ timeFilter = "Yearly"
  /\ lineDataNow.lineDataByCollege["Central"][Str_prospect][12] = 1
  /\ lineDataNow.lineDataByCollege["Central"][Str_prospect][1] = 1
  /\ \E i \in DOMAIN partnerships : MonthsAgo(partnerships[i]) = 11

(***************************************************************************)
(* C15: for every list of fetched records processLineData completes and    *)
(* returns, for "All Colleges" and each of the 8 named colleges, the four  *)
(* statuses each with a sequence of 12 non-negative integers.              *)
(***************************************************************************)
C15_LineDataAlwaysProduced ==
  LET r == lineDataNow
  IN  /\ ~r.threw
      /\ DOMAIN r.lineDataByCollege = LineKeys
      /\ \A key \in LineKeys :
           /\ DOMAIN r.lineDataByCollege[key] = Buckets
           /\ \A st \in Buckets :
                /\ Len(r.lineDataByCollege[key][st]) = 12
                /\ \A j \in 1..12 : r.lineDataByCollege[key][st][j] >= 0

(***************************************************************************)
(* C16: whenever the monthly series is produced, for every status and      *)
(* month index the "All Colleges" value is the sum of the 8 per-college    *)
(* values, and under a specific college filter every other college's       *)
(* series is all zeros.                                                    *)
(***************************************************************************)
RECURSIVE SumOver(_, _)
SumOver(S, f) ==
  IF S = {} THEN 0
  ELSE LET x == CHOOSE x \in S : TRUE IN f[x] + SumOver(S \ {x}, f)

C16_AllIsSumOfColleges ==
  LET r == lineDataNow
      d == r.lineDataByCollege
  IN  ~r.threw =>
        /\ \A st \in Buckets : \A j \in 1..12 :
             d[AllColleges][st][j] = SumOver(NamedColleges, [c \in NamedColleges |-> d[c][st][j]])
        /\ collegeFilter # AllColleges =>
             \A c \in NamedColleges \ {collegeFilter} : \A st \in Buckets :
               \A j \in 1..12 : d[c][st][j] = 0

(***************************************************************************)
(* processPieData: the distribution of the fetched records over colleges.  *)
(***************************************************************************)
\* processPieData as it would be if colleges with no record kept their entry
processPieData_KeepsZeros(ps) ==
  LET count(c) == Cardinality({i \in DOMAIN ps : ps[i].college = c})
      kept == SelectSeq(colleges, LAMBDA c : c # AllColleges)
  IN  [labels |-> kept,
       data   |-> [k \in 1..Len(kept) |-> count(kept[k])]]

\* processPieData: collegeCounts gets a key, in the order of colleges, for
\* each named college with count > 0; labels are its keys, data its values
processPieData(ps) ==
  LET count(c) == Cardinality({i \in DOMAIN ps : ps[i].college = c})
      kept == SelectSeq(colleges, LAMBDA c : c # AllColleges /\ count(c) > 0)
  IN  [labels |-> kept,
       data   |-> [k \in 1..Len(kept) |-> count(kept[k])]]

pieData == processPieData(partnerships)

(***************************************************************************)
(* C20: the pie aggregation does not depend on timeFilter or on the        *)
(* records' status: labels and values have the same length, every value is *)
(* greater than zero, each value is the number of all fetched records of   *)
(* its label's college (inside the time window or not), and a named        *)
(* college is a label if and only if some fetched record has it.           *)
(***************************************************************************)
C20_SameButStatus ==
  [i \in DOMAIN partnerships |->
    [partnerships[i] EXCEPT !.status = Str_pending, !.expirationDate = Absent]]

C20_PieData ==
  LET pie == pieData
  IN  /\ Len(pie.labels) = Len(pie.data)
      /\ \A k \in DOMAIN pie.data :
           /\ pie.data[k] > 0
           /\ pie.data[k] =
                Cardinality({i \in DOMAIN partnerships :
                  partnerships[i].college = pie.labels[k]})
      /\ \A j, k \in DOMAIN pie.labels : j # k => pie.labels[j] # pie.labels[k]
      /\ {pie.labels[k] : k \in DOMAIN pie.labels}
           = {partnerships[i].college : i \in DOMAIN partnerships} \cap NamedColleges
      /\ processPieData(C20_SameButStatus) = pie

\* under the Weekly filter, a record that is outside the time window and an
\* Active one inside it are both counted, and "Department of Physics" has no label
C20_Witness ==
  /\ timeFilter = "Weekly"
  /\ Len(partnerships) = 2
  /\ ~InWindow(partnerships[1])
  /\ partnerships[1].college = "Central"
  /\ partnerships[2].status = Str_Active
  /\ partnerships[2].college = "Central"
  /\ pieData.labels = <<"Central">>
  /\ pieData.data = <<2>>

(***************************************************************************)
(* processHeatmapData: the country names.                                  *)
(***************************************************************************)
Str_Unknown           == << "U","n","k","n","o","w","n" >>
Str_UnitedStates      == << "U","n","i","t","e","d"," ","S","t","a","t","e","s" >>
Str_UnitedKingdom     == << "U","n","i","t","e","d"," ","K","i","n","g","d","o","m" >>
Str_SouthKorea        == << "S","o","u","t","h"," ","K","o","r","e","a" >>
Str_RussianFederation == << "R","u","s","s","i","a","n"," ","F","e","d","e","r","a","t","i","o","n" >>
Str_China             == << "C","h","i","n","a" >>
Str_Taiwan            == << "T","a","i","w","a","n" >>
Str_Ethiopia          == << "E","t","h","i","o","p","i","a" >>
Str_constructor       == << "c","o","n","s","t","r","u","c","t","o","r" >>
Str_proto             == << "_","_","p","r","o","t","o","_","_" >>
Str_defineGetter      == << "_","_","d","e","f","i","n","e","G","e","t","t","e","r","_","_" >>

\* the own properties of the object literal countryMap
countryMap ==
  (<< "u","n","i","t","e","d"," ","s","t","a","t","e","s" >> :> Str_UnitedStates)
    @@
  (<< "u","s","a" >> :> Str_UnitedStates)
    @@
  (<< "u","n","i","t","e","d"," ","s","t","a","t","e","s"," ","o","f"," ","a","m","e","r","i","c","a" >> :> Str_UnitedStates)
    @@
  (<< "u","n","i","t","e","d"," ","k","i","n","g","d","o","m" >> :> Str_UnitedKingdom)
    @@
  (<< "u","k" >> :> Str_UnitedKingdom)
    @@
  (<< "g","r","e","a","t"," ","b","r","i","t","a","i","n" >> :> Str_UnitedKingdom)
    @@
  (<< "s","o","u","t","h"," ","k","o","r","e","a" >> :> Str_SouthKorea)
    @@
  (<< "k","o","r","e","a",","," ","r","e","p","u","b","l","i","c"," ","o","f" >> :> Str_SouthKorea)
    @@
  (<< "r","u","s","s","i","a" >> :> Str_RussianFederation)
    @@
  (<< "c","h","i","n","a" >> :> Str_China)
    @@
  (<< "t","a","i","w","a","n" >> :> Str_Taiwan)
    @@
  (<< "e","t","h","i","o","p","i","a" >> :> Str_Ethiopia)

\* properties every object inherits from Object.prototype whose names are
\* possible country strings: a lookup obj[key] finds them when obj has no own
\* property key
ObjectPrototypeKeys == {Str_constructor, Str_proto, Str_defineGetter}

\* white space that String.prototype.trim removes
WhiteSpace == {" "}

RECURSIVE trimStart(_)
trimStart(s) ==
  IF s # << >> /\ s[1] \in WhiteSpace THEN trimStart(Tail(s)) ELSE s

RECURSIVE trimEnd(_)
trimEnd(s) ==
  IF s # << >> /\ s[Len(s)] \in WhiteSpace
    THEN trimEnd(SubSeq(s, 1, Len(s) - 1))
    ELSE s

\* String.prototype.trim
trim(s) == trimEnd(trimStart(s))

ToUpperChar(c) ==
  IF \E i \in 1..Len(LowerCase) : LowerCase[i] = c
    THEN UpperCase[CHOOSE i \in 1..Len(LowerCase) : LowerCase[i] = c]
    ELSE c

\* s.charAt(0).toUpperCase() + s.slice(1)
capitalize(s) ==
  IF s = << >> THEN << >> ELSE << ToUpperChar(s[1]) >> \o Tail(s)

\* countryMap[key]: an own property (a string), an inherited property (a
\* function or an object) or undefined
countryMapGet(key) ==
  IF key \in DOMAIN countryMap
    THEN [kind |-> "string", value |-> countryMap[key]]
  ELSE IF key \in ObjectPrototypeKeys
    THEN [kind |-> "inherited", value |-> << >>]
  ELSE [kind |-> "undefined", value |-> << >>]

\* normalizeCountryName(name); name is << >> when the country is missing or
\* empty. A truthy mappedName that is not a string has no charAt: calling
\* it throws a TypeError
normalizeCountryName(name) ==
  IF name = << >>
    THEN [threw |-> FALSE, value |-> Str_Unknown]
    ELSE LET normalized == toLowerCase(trim(name))
             mappedName == countryMapGet(normalized)
         IN  CASE mappedName.kind = "string" ->
                    [threw |-> FALSE, value |-> capitalize(mappedName.value)]
               [] mappedName.kind = "inherited" ->
                    [threw |-> TRUE, value |-> << >>]
               [] OTHER ->
                    [threw |-> FALSE, value |-> capitalize(name)]

(***************************************************************************)
(* processHeatmapData: the filter, the counts and the colour scale.        *)
(***************************************************************************)
\* the heatmap's filter as it would be if a record with no createdAt passed
\* the time test
heatmapFilteredPartnerships_KeepsNoCreatedAt(ps, tf, cf, n) ==
  SelectSeq(ps, LAMBDA p :
    /\ (p.createdAt = Absent \/ p.createdAt >= StartDate(tf, n))
    /\ (cf = AllColleges \/ p.college = cf))

\* filteredPartnerships of processHeatmapData
heatmapFilteredPartnerships(ps, tf, cf, n) ==
  SelectSeq(ps, LAMBDA p :
    /\ p.createdAt # Absent
    /\ p.createdAt >= StartDate(tf, n)
    /\ (cf = AllColleges \/ p.college = cf))

\* Math.max(...values, 1) on numbers
MaxOrOne(S) == CHOOSE m \in S \cup {1} : \A x \in S \cup {1} : x <= m

\* processHeatmapData: it throws in normalizeCountryName, or returns
\* countryCounts and the domain [0, maxCount] of colorScale.
\* acc[country] = (acc[country] || 0) + 1 starts from the inherited function
\* when country names a property of Object.prototype: the value is then a
\* string (isNumber FALSE) and Math.max gives NaN
processHeatmapData(ps, tf, cf, n) ==
  LET f    == heatmapFilteredPartnerships(ps, tf, cf, n)
      es   == { [i |-> i, r |-> normalizeCountryName(f[i].country)] : i \in DOMAIN f }
      Country(e) == IF e.r.value = << >> THEN Str_Unknown ELSE e.r.value
      keys == { Country(e) : e \in es }
      countryCounts ==
        [k \in keys |->
          [isNumber |-> k \notin ObjectPrototypeKeys,
           n        |-> Cardinality({e \in es : Country(e) = k})]]
      isNaN == \E k \in keys : ~countryCounts[k].isNumber
      maxCount ==
        IF isNaN THEN 0 ELSE MaxOrOne({countryCounts[k].n : k \in keys})
  IN  IF \E e \in es : e.r.threw
        THEN [threw |-> TRUE, countryCounts |-> << >>,
              maxCount |-> [isNaN |-> FALSE, n |-> 0]]
        ELSE [threw |-> FALSE, countryCounts |-> countryCounts,
              maxCount |-> [isNaN |-> isNaN, n |-> maxCount]]

(***************************************************************************)
(* The country specification: the dashboard once a fetch has resolved with *)
(* a list of records that carry countries, under every time filter.        *)
(***************************************************************************)
RecC(cr, co, country) ==
  [status |-> Str_pending, expirationDate |-> Absent, createdAt |-> cr,
   college |-> co, country |-> country]

\* the country strings of the records
Countries ==
  { << >>,
    << "u","s","a" >>,
    << " ","U","K" >>,
    Str_UnitedStates,
    << "r","u","s","s","i","a" >>,
    << "f","R","A","N","C","E" >>,
    << " ","f","r","a","n","c","e" >>,
    << "u","n","k","n","o","w","n" >>,
    Str_constructor,
    Str_defineGetter }

\* records inside every window with each country, and records with the
\* country "usa" that one of the filter's tests rejects
CountryRecords(n) ==
  { RecC(n - 3, "Central", c) : c \in Countries }
    \cup
  { RecC(cr, "Central", << "u","s","a" >>) : cr \in {Absent, n - 400} }
    \cup
  { RecC(n - 3, co, << "u","s","a" >>) :
      co \in {"", "College of Business and Economics"} }

InitCountry ==
  /\ timeFilter = "Monthly"
  /\ collegeFilter \in CollegeChoices
  /\ now \in AggNows
  /\ partnerships \in ListsUpTo(CountryRecords(now), MaxRecords)
  /\ loading = FALSE
  /\ mapData = "null"
  /\ mapPending = TRUE
  /\ inflight = {}
  /\ issued = (IF collegeFilter = AllColleges THEN 1 ELSE 2)
  /\ toasts = 0
  /\ lastSettle = [id |-> issued, college |-> collegeFilter, ok |-> TRUE]
  /\ listOf = [id |-> issued, college |-> collegeFilter]
  /\ DashboardOnly

NextCountry == \E f \in TimeFilters : SetTimeFilter(f)

SpecCountry == InitCountry /\ [][NextCountry]_vars

heatmapNow == processHeatmapData(partnerships, timeFilter, collegeFilter, now)

heatmapFilteredNow ==
  heatmapFilteredPartnerships(partnerships, timeFilter, collegeFilter, now)

(***************************************************************************)
(* C11 as stated: a record with no createdAt is in no time-windowed status *)
(* view, but the country heatmap's filter keeps it when it matches the     *)
(* active college filter.                                                  *)
(***************************************************************************)
C11_MatchesCollegeFilter(p) ==
  collegeFilter = AllColleges \/ p.college = collegeFilter

C11_InChartViews(p) ==
  LET f == filteredPartnerships(partnerships, timeFilter, now)
  IN  \E k \in DOMAIN f : f[k] = p

C11_InHeatmap(p) ==
  LET f == heatmapFilteredNow
  IN  \E k \in DOMAIN f : f[k] = p

C11_NoCreatedAtCountedByHeatmap ==
  \A i \in DOMAIN partnerships :
    LET p == partnerships[i]
    IN  p.createdAt = Absent =>
          /\ ~C11_InChartViews(p)
          /\ C11_MatchesCollegeFilter(p) => C11_InHeatmap(p)

(***************************************************************************)
(* C11 amended: a record with no createdAt is in no time-windowed status   *)
(* view and is not kept by the country heatmap's filter either, whether or *)
(* not it matches the active college filter; the heatmap keeps exactly the *)
(* records inside the time window that match the college filter.           *)
(***************************************************************************)
C11_NoCreatedAtExcludedEverywhere ==
  /\ \A i \in DOMAIN partnerships :
       LET p == partnerships[i]
       IN  p.createdAt = Absent => ~C11_InChartViews(p) /\ ~C11_InHeatmap(p)
  /\ Len(heatmapFilteredNow) =
       Cardinality({i \in DOMAIN partnerships :
         InWindow(partnerships[i]) /\ C11_MatchesCollegeFilter(partnerships[i])})

\* under "All Times" a record with no createdAt that matches the college
\* filter is left out while the list's other record is kept
C11_Witness ==
  /\ timeFilter = "All Times"
  /\ Len(partnerships) = 2
  /\ partnerships[1].createdAt = Absent
  /\ C11_MatchesCollegeFilter(partnerships[1])
  /\ heatmapFilteredNow = << partnerships[2] >>

(***************************************************************************)
(* C17: normalizeCountryName is idempotent: for every country string of a  *)
(* record it returns a name, and normalizing that name returns it again.   *)
(***************************************************************************)
C17_Idempotent ==
  \A i \in DOMAIN partnerships :
    LET once == normalizeCountryName(partnerships[i].country)
    IN  /\ ~once.threw
        /\ LET twice == normalizeCountryName(once.value)
           IN  ~twice.threw /\ twice.value = once.value

(***************************************************************************)
(* C18: processHeatmapData returns countryCounts in which every record     *)
(* that passes the time and college filters is counted once under its      *)
(* normalized country ("usa" under "United States", " UK" under "United    *)
(* Kingdom", a missing country under "Unknown"): each value is the number  *)
(* of filtered records with that normalized country and the values sum to  *)
(* the number of filtered records.                                         *)
(***************************************************************************)
C18_SumOfCounts(h) ==
  SumOver(DOMAIN h.countryCounts,
          [k \in DOMAIN h.countryCounts |-> h.countryCounts[k].n])

C18_CountryCounts ==
  LET h == heatmapNow
      f == heatmapFilteredNow
  IN  /\ ~h.threw
      /\ \A k \in DOMAIN h.countryCounts :
           /\ h.countryCounts[k].isNumber
           /\ h.countryCounts[k].n =
                Cardinality({i \in DOMAIN f :
                  LET r == normalizeCountryName(f[i].country)
                  IN  ~r.threw /\ r.value = k})
      /\ \A i \in DOMAIN f :
           f[i].country = << >> => Str_Unknown \in DOMAIN h.countryCounts
      /\ \A i \in DOMAIN f :
           f[i].country \in {<< "u","s","a" >>, Str_UnitedStates}
             => Str_UnitedStates \in DOMAIN h.countryCounts
      /\ \A i \in DOMAIN f :
           f[i].country = << " ","U","K" >>
             => Str_UnitedKingdom \in DOMAIN h.countryCounts
      /\ C18_SumOfCounts(h) = Len(f)

(***************************************************************************)
(* C19: the colour scale's domain is [0, maxCount] with maxCount the       *)
(* maximum of the country counts and 1: maxCount >= 1 also when no record  *)
(* passes the filters, every count is at most maxCount, and with a single  *)
(* filtered record its country's count 1 is maxCount.                      *)
(***************************************************************************)
C19_ColorScaleDomain ==
  LET h == heatmapNow
      f == heatmapFilteredNow
  IN  /\ ~h.threw
      /\ ~h.maxCount.isNaN
      /\ h.maxCount.n >= 1
      /\ \A k \in DOMAIN h.countryCounts :
           h.countryCounts[k].isNumber /\ h.countryCounts[k].n \in 0..h.maxCount.n
      /\ h.maxCount.n = MaxOrOne({h.countryCounts[k].n : k \in DOMAIN h.countryCounts})
      /\ Len(f) = 0 => h.maxCount.n = 1
      /\ Len(f) = 1 =>
           /\ h.maxCount.n = 1
           /\ \A k \in DOMAIN h.countryCounts : h.countryCounts[k].n = h.maxCount.n

(***************************************************************************)
(* The render: the four aggregations of the component body, as a function  *)
(* of the state they read.                                                 *)
(***************************************************************************)
\* the render as it would be if processLineData read only the records
\* inside the time window
render_LineTimeWindowed(ps, tf, cf, n) ==
  [collegeData  |-> collegeData(ps, tf, cf, n),
   totalData    |-> totalData(ps, tf, n),
   lineData     |-> processLineData(filteredPartnerships(ps, tf, n), cf, n),
   pieData      |-> processPieData(ps),
   heatmap      |-> processHeatmapData(ps, tf, cf, n)]

\* what a render with record list ps, time filter tf, college filter cf and
\* clock reading n computes
render(ps, tf, cf, n) ==
  [collegeData  |-> collegeData(ps, tf, cf, n),
   totalData    |-> totalData(ps, tf, n),
   lineData     |-> processLineData(ps, cf, n),
   pieData      |-> processPieData(ps),
   heatmap      |-> processHeatmapData(ps, tf, cf, n)]

(***************************************************************************)
(* The time filter specification: the dashboard once a fetch has resolved  *)
(* with records of several ages, under every time filter.                  *)
(***************************************************************************)
\* records created 3, 40 and 400 days before the clock reading
FrameRecords(n) ==
  { Rec(Str_pending, Absent, n - 3, "Central"),
    Rec(Str_pending, Absent, n - 40, "Central"),
    Rec(Str_Active, n + 60, n - 400, "College of Business and Economics") }

InitFrame ==
  /\ timeFilter = "Monthly"
  /\ collegeFilter \in CollegeChoices
  /\ now \in AggNows
  /\ partnerships \in ListsUpTo(FrameRecords(now), MaxRecords)
  /\ loading = FALSE
  /\ mapData = "null"
  /\ mapPending = TRUE
  /\ inflight = {}
  /\ issued = (IF collegeFilter = AllColleges THEN 1 ELSE 2)
  /\ toasts = 0
  /\ lastSettle = [id |-> issued, college |-> collegeFilter, ok |-> TRUE]
  /\ listOf = [id |-> issued, college |-> collegeFilter]
  /\ DashboardOnly

NextFrame == \E f \in TimeFilters : SetTimeFilter(f)

SpecFrame == InitFrame /\ [][NextFrame]_vars

(***************************************************************************)
(* C29: a change of timeFilter alone leaves the fetched record list, the   *)
(* loading flag, the monthly 12-slot series and the pie distribution as    *)
(* they were: the step changes no other state, and the render under any    *)
(* other time filter gives the same series and the same pie. The status    *)
(* counts and the country counts are the aggregates that may differ.       *)
(***************************************************************************)
C29_TimeFilterFrame ==
  /\ [](\A tf \in TimeFilters :
          LET here  == render(partnerships, timeFilter, collegeFilter, now)
              there == render(partnerships, tf, collegeFilter, now)
          IN  /\ there.lineData.threw = here.lineData.threw
              /\ ~here.lineData.threw =>
                   \A k \in LineKeys : \A st \in Buckets : \A j \in 1..12 :
                     there.lineData.lineDataByCollege[k][st][j]
                       = here.lineData.lineDataByCollege[k][st][j]
              /\ there.pieData = here.pieData)
  /\ [][timeFilter' # timeFilter =>
          /\ partnerships' = partnerships
          /\ loading' = loading
          /\ collegeFilter' = collegeFilter
          /\ inflight' = inflight
          /\ issued' = issued]_vars

\* after a change to Yearly a record created 40 days ago is in the monthly
\* series and in the pie as before, and now also in the status counts
C29_Witness ==
  /\ timeFilter = "Yearly"
  /\ collegeFilter = AllColleges
  /\ Len(partnerships) = 1
  /\ partnerships[1].createdAt = now - 40
  /\ ~lineDataNow.threw
  /\ lineDataNow.lineDataByCollege["Central"][Str_prospect][11] = 1
  /\ pieData.data = << 1 >>
  /\ totalDataNow[Str_prospect] = 1
  /\ totalData(partnerships, "Monthly", now)[Str_prospect] = 0


(***************************************************************************)
(* C23 as stated: every change of the college filter or of the time filter *)
(* issues exactly one GET /partnership call.                               *)
(***************************************************************************)
C23_OneCallPerFilterChange ==
  [][(collegeFilter' # collegeFilter \/ timeFilter' # timeFilter) =>
       issued' = issued + 1]_vars

(***************************************************************************)
(* C23 amended: one call is issued on mount and exactly one for each       *)
(* change of the college filter; a change of the time filter and a failed  *)
(* call issue none. A call carries college=<name> unless the filter is     *)
(* "All Colleges", and when it settles the list is the response's array,   *)
(* or empty when the call failed or the response holds no array.           *)
(***************************************************************************)
C23_OneCallPerCollegeChange ==
  /\ issued >= 1
  /\ [][/\ collegeFilter' # collegeFilter =>
             /\ issued' = issued + 1
             /\ \E r \in inflight' \ inflight :
                  /\ inflight' = inflight \cup {r}
                  /\ r.id = issued'
                  /\ r.params = (IF collegeFilter' = "All Colleges"
                                   THEN {}
                                   ELSE {<< "college", collegeFilter' >>})
        /\ collegeFilter' = collegeFilter =>
             /\ issued' = issued
             /\ inflight' \subseteq inflight
        /\ lastSettle' # lastSettle =>
             /\ ~lastSettle'.ok => partnerships' = << >>
             /\ lastSettle'.ok => partnerships' \in ServerLists]_vars

\* the time filter was changed and the only call failed: no second call
C23_Witness ==
  /\ timeFilter # "Monthly"
  /\ issued = 1
  /\ lastSettle.id = 1
  /\ ~lastSettle.ok
  /\ inflight = {}
  /\ partnerships = << >>

(***************************************************************************)
(* C26: the map data is fetched once, on mount. When that fetch fails      *)
(* mapData is null, and the step changes neither the record list, the      *)
(* loading flag, the filters, the calls in flight nor any aggregate,       *)
(* whatever the state of the partnership fetch.                            *)
(***************************************************************************)
C26_MapFailureFrame ==
  /\ [][MapFailed =>
          /\ mapData' = "null"
          /\ partnerships' = partnerships
          /\ loading' = loading
          /\ inflight' = inflight
          /\ toasts' = toasts
          /\ timeFilter' = timeFilter
          /\ collegeFilter' = collegeFilter
          /\ now' = now]_vars
  /\ [][~mapPending => (~mapPending' /\ mapData' = mapData)]_vars
  /\ [](mapPending => mapData = "null")

\* the map fetch failed while a partnership call was still in flight, and
\* after a list had been loaded
C26_Witness ==
  /\ ~mapPending
  /\ mapData = "null"
  /\ Len(partnerships) > 0
  /\ inflight # {}
  /\ loading


(***************************************************************************)
(* api.jsx: the axios instance API and its request interceptor.            *)
(***************************************************************************)
\* localStorage.getItem(key): the stored string, or null
getItem(store, key) ==
  IF key \in DOMAIN store
    THEN [isNull |-> FALSE, value |-> store[key]]
    ELSE [isNull |-> TRUE, value |-> ""]

\* the interceptor as it would be if it set the header from whatever
\* getItem returned
interceptor_AlwaysSetsHeader(config, store) ==
  LET token == getItem(store, "authToken")
  IN  [config EXCEPT !.headers =
        [h \in {"Authorization"} |-> << "Bearer", token.value >>]]

\* the request interceptor: `Bearer ${token}` is the pair <<"Bearer", token>>
interceptor(config, store) ==
  LET token == getItem(store, "authToken")
  IN  IF ~token.isNull /\ token.value # ""
        THEN [config EXCEPT !.headers =
               [h \in {"Authorization"} |-> << "Bearer", token.value >>]]
        ELSE config

\* API.post(url, data), API.get(url), API.put(url, data): the config that
\* leaves the interceptor for the network
APIRequest(method, url, data, store) ==
  interceptor([method |-> method, url |-> url, data |-> data, headers |-> << >>],
              store)

\* the values of localStorage the model's sessions have: nothing stored, an
\* empty authToken, a token
Stores ==
  { << >>,
    [k \in {"authToken"} |-> ""],
    [k \in {"authToken"} |-> "jwt-1"],
    [k \in {"authToken"} |-> "jwt-2"] }

\* another part of the application (login, logout) writes localStorage
StorageChange(store) ==
  /\ store # localStorage
  /\ localStorage' = store
  /\ UNCHANGED << timeFilter, collegeFilter, partnerships, loading, mapData,
                  mapPending, inflight, issued, toasts, lastSettle, listOf, now,
                  wire, edit, reset >>

(***************************************************************************)
(* ResetPassword: the page's state, handleSubmit and its request.          *)
(***************************************************************************)
\* a string of n characters "a"
Chars(n) == [i \in 1..n |-> "a"]

\* what the model's user types as e-mail address and as passwords
Emails == {"", "user@aau.edu.et"}

\* the bounds of the length test of handleSubmit
MinPasswordLength == 8
MaxPasswordLength == 12

Passwords ==
  { Chars(0), Chars(MinPasswordLength - 1), Chars(MinPasswordLength),
    Chars(MaxPasswordLength), Chars(MaxPasswordLength + 1),
    Chars(MinPasswordLength - 1) \o << "b" >> }

\* the errors resetPassword rejects with: with and without response.data.error
ResetErrors ==
  { [hasError |-> TRUE, error |-> "User not found"],
    [hasError |-> FALSE, error |-> ""] }

\* the dashboard's variables, which the other pages' handlers leave alone
dashboard ==
  << timeFilter, collegeFilter, partnerships, loading, mapData, mapPending,
     inflight, issued, toasts, lastSettle, listOf, now >>

\* the state of the dashboard's variables while another page is on screen
DashboardUnmounted ==
  /\ timeFilter = "Monthly"
  /\ collegeFilter = AllColleges
  /\ partnerships = << >>
  /\ loading = TRUE
  /\ mapData = "null"
  /\ mapPending = FALSE
  /\ inflight = {}
  /\ issued = 0
  /\ toasts = 0
  /\ lastSettle = [id |-> 0, college |-> AllColleges, ok |-> TRUE]
  /\ listOf = [id |-> 0, college |-> AllColleges]
  /\ now = Now0

InitReset ==
  /\ DashboardUnmounted
  /\ localStorage \in Stores
  /\ wire = << >>
  /\ edit = Unmounted
  /\ reset = [mounted |-> TRUE, path |-> "/reset-password",
              email |-> "", newPassword |-> << >>, confirmPassword |-> << >>,
              loading |-> FALSE, toast |-> "none"]

\* onChange of the three inputs
SetEmail(v) ==
  /\ reset.mounted
  /\ v # reset.email
  /\ reset' = [reset EXCEPT !.email = v]
  /\ UNCHANGED << dashboard, localStorage, wire, edit >>

SetNewPassword(v) ==
  /\ reset.mounted
  /\ v # reset.newPassword
  /\ reset' = [reset EXCEPT !.newPassword = v]
  /\ UNCHANGED << dashboard, localStorage, wire, edit >>

SetConfirmPassword(v) ==
  /\ reset.mounted
  /\ v # reset.confirmPassword
  /\ reset' = [reset EXCEPT !.confirmPassword = v]
  /\ UNCHANGED << dashboard, localStorage, wire, edit >>

\* handleSubmit as it would be if a password of MaxPasswordLength + 1
\* characters passed the length test
ResetSubmit_LongPassword ==
  /\ reset.mounted
  /\ ~reset.loading
  /\ IF reset.email = "" \/ reset.newPassword = << >> \/ reset.confirmPassword = << >>
       THEN /\ reset' = [reset EXCEPT !.toast = "All fields are required"]
            /\ wire' = wire
     ELSE IF \/ Len(reset.newPassword) < MinPasswordLength
             \/ Len(reset.newPassword) > MaxPasswordLength + 1
       THEN /\ reset' = [reset EXCEPT !.toast = "Password must be 8-12 characters"]
            /\ wire' = wire
     ELSE IF reset.newPassword # reset.confirmPassword
       THEN /\ reset' = [reset EXCEPT !.toast = "Passwords do not match"]
            /\ wire' = wire
     ELSE /\ reset' = [reset EXCEPT !.loading = TRUE]
          /\ wire' = Append(wire,
               APIRequest("POST", "/auth/reset-password",
                 [email |-> reset.email, newPassword |-> reset.newPassword,
                  confirmPassword |-> reset.confirmPassword],
                 localStorage))
  /\ UNCHANGED << dashboard, localStorage, edit >>

\* handleSubmit up to its await: the form's onSubmit; the submit button is
\* disabled while loading
ResetSubmit ==
  /\ reset.mounted
  /\ ~reset.loading
  /\ IF reset.email = "" \/ reset.newPassword = << >> \/ reset.confirmPassword = << >>
       THEN /\ reset' = [reset EXCEPT !.toast = "All fields are required"]
            /\ wire' = wire
     ELSE IF \/ Len(reset.newPassword) < MinPasswordLength
             \/ Len(reset.newPassword) > MaxPasswordLength
       THEN /\ reset' = [reset EXCEPT !.toast = "Password must be 8-12 characters"]
            /\ wire' = wire
     ELSE IF reset.newPassword # reset.confirmPassword
       THEN /\ reset' = [reset EXCEPT !.toast = "Passwords do not match"]
            /\ wire' = wire
     ELSE /\ reset' = [reset EXCEPT !.loading = TRUE]
          /\ wire' = Append(wire,
               APIRequest("POST", "/auth/reset-password",
                 [email |-> reset.email, newPassword |-> reset.newPassword,
                  confirmPassword |-> reset.confirmPassword],
                 localStorage))
  /\ UNCHANGED << dashboard, localStorage, edit >>

\* the await resolves: toast.success, navigate("/"), finally setLoading(false)
ResetResolved ==
  /\ reset.mounted
  /\ reset.loading
  /\ wire # << >>
  /\ wire' = Tail(wire)
  /\ reset' = [reset EXCEPT !.toast = "Password reset successfully. Please login.",
                            !.path = "/", !.mounted = FALSE, !.loading = FALSE]
  /\ UNCHANGED << dashboard, localStorage, edit >>

\* the await rejects with err: the catch block, finally setLoading(false)
ResetRejected(err) ==
  /\ reset.mounted
  /\ reset.loading
  /\ wire # << >>
  /\ wire' = Tail(wire)
  /\ reset' = [reset EXCEPT
       !.toast = (IF err.hasError THEN err.error ELSE "Failed to reset password"),
       !.loading = FALSE]
  /\ UNCHANGED << dashboard, localStorage, edit >>

NextReset ==
  \/ \E v \in Emails : SetEmail(v)
  \/ \E v \in Passwords : SetNewPassword(v)
  \/ \E v \in Passwords : SetConfirmPassword(v)
  \/ ResetSubmit
  \/ ResetResolved
  \/ \E err \in ResetErrors : ResetRejected(err)
  \/ \E store \in Stores : StorageChange(store)

SpecReset == InitReset /\ [][NextReset]_vars

(***************************************************************************)
(* C24: POST /auth/reset-password is sent only by a submit whose email,    *)
(* newPassword and confirmPassword are all non-empty, whose newPassword    *)
(* has 8 to 12 characters and equals confirmPassword; a submit that fails  *)
(* the validation sends nothing, leaves loading false and the route where  *)
(* it is; a rejected request is not sent again.                            *)
(***************************************************************************)
C24_Valid ==
  /\ reset.email # ""
  /\ reset.newPassword # << >>
  /\ reset.confirmPassword # << >>
  /\ Len(reset.newPassword) \in 8..12
  /\ reset.newPassword = reset.confirmPassword

C24_ValidationMessages ==
  { "All fields are required", "Password must be 8-12 characters",
    "Passwords do not match" }

C24_ValidationBeforeRequest ==
  /\ [][Len(wire') > Len(wire) =>
          /\ C24_Valid
          /\ ~reset.loading
          /\ reset'.loading
          /\ wire'[Len(wire')].method = "POST"
          /\ wire'[Len(wire')].url = "/auth/reset-password"
          /\ wire'[Len(wire')].data =
               [email |-> reset.email, newPassword |-> reset.newPassword,
                confirmPassword |-> reset.confirmPassword]]_vars
  /\ [][(reset'.toast # reset.toast /\ reset'.toast \in C24_ValidationMessages) =>
          /\ ~C24_Valid
          /\ wire' = wire
          /\ wire = << >>
          /\ ~reset'.loading
          /\ reset'.path = reset.path]_vars
  /\ [][(ResetSubmit /\ C24_Valid) => Len(wire') = Len(wire) + 1]_vars
  /\ [](Len(wire) <= 1)
  /\ [](reset.path = "/" => reset.toast = "Password reset successfully. Please login.")

\* a rejected request: loading is false again, nothing is in flight, and
\* the page is still the reset page with valid fields
C24_Witness ==
  /\ reset.mounted
  /\ reset.toast = "Failed to reset password"
  /\ ~reset.loading
  /\ wire = << >>
  /\ C24_Valid
  /\ Len(reset.newPassword) = 12

(***************************************************************************)
(* C25: every request that leaves for the network went through the         *)
(* interceptor: it carries Authorization: Bearer <token> when localStorage *)
(* holds a non-empty authToken at the time of the request, and carries no  *)
(* Authorization header, and is sent all the same, when it holds none.     *)
(***************************************************************************)
C25_HasToken ==
  "authToken" \in DOMAIN localStorage /\ localStorage["authToken"] # ""

C25_BearerToken ==
  /\ [][Len(wire') > Len(wire) =>
          LET config == wire'[Len(wire')]
          IN  /\ C25_HasToken =>
                   /\ DOMAIN config.headers = {"Authorization"}
                   /\ config.headers["Authorization"]
                        = << "Bearer", localStorage["authToken"] >>
              /\ ~C25_HasToken => DOMAIN config.headers = {}]_vars
  /\ [][(ResetSubmit /\ C24_Valid) => wire' # wire]_vars

\* a request in flight carries the token that was stored when it was sent,
\* which has since been replaced in localStorage
C25_Witness ==
  /\ wire # << >>
  /\ DOMAIN wire[1].headers = {"Authorization"}
  /\ wire[1].headers["Authorization"] = << "Bearer", "jwt-1" >>
  /\ "authToken" \in DOMAIN localStorage
  /\ localStorage["authToken"] = "jwt-2"

(***************************************************************************)
(* EditPartnership: JavaScript values and objects of the form.             *)
(* A primitive is a record [t, v]; an object is a function from its keys.  *)
(***************************************************************************)
Str(s) == [t |-> "string", v |-> s]

Num(s) == [t |-> "number", v |-> s]

Undefined == [t |-> "undefined", v |-> ""]

Null == [t |-> "null", v |-> ""]

\* typeof x !== "object" || x === null
IsPrimitive(x) == DOMAIN x = {"t", "v"}

\* the operand of ||, ?: and if
Truthy(x) ==
  IF IsPrimitive(x)
    THEN ~(\/ x.t \in {"undefined", "null"}
           \/ (x.t = "string" /\ x.v = "")
           \/ (x.t = "number" /\ x.v = "0"))
    ELSE TRUE

\* obj[key] on an object
Get(obj, key) == IF key \in DOMAIN obj THEN obj[key] ELSE Undefined

\* obj[section]?.[field]
GetIn(obj, section, field) ==
  LET s == Get(obj, section)
  IN  IF IsPrimitive(s) THEN Undefined ELSE Get(s, field)

\* x || ""
OrEmpty(x) == IF Truthy(x) THEN x ELSE Str("")

\* new Date(s).toISOString().split("T")[0] on the date-time strings the
\* server sends: the calendar date in UTC
toISODate ==
  [s \in {"2024-03-31T00:00:00.000Z", "2024-12-31T22:30:00.000-05:00"} |->
     IF s = "2024-03-31T00:00:00.000Z" THEN "2024-03-31" ELSE "2025-01-01"]

\* x ? new Date(x).toISOString().split("T")[0] : ""
DateOrEmpty(x) == IF Truthy(x) THEN Str(toISODate[x.v]) ELSE Str("")

\* the keys of formData: top-level fields, date fields and sections
TextFields == {"name", "type", "region", "country", "college", "status", "description"}

DateFields == {"signedDate", "endDate", "potentialStartDate"}

SectionFields ==
  [s \in {"partnerInstitution", "aauContact", "partnerContactPerson"} |->
     IF s = "partnerInstitution"
       THEN {"name", "website", "address", "country"}
       ELSE {"name", "email", "phone", "title", "address"}]

Sections == DOMAIN SectionFields

\* useState({...}): every field ""
InitialFormData ==
  [k \in TextFields \cup DateFields \cup Sections |->
     IF k \in Sections THEN [f \in SectionFields[k] |-> Str("")] ELSE Str("")]

\* formattedData as it would be if it were built from response.data
formattedData_FromBody(data) ==
  LET body == Get(data, "data")
  IN  [k \in TextFields \cup DateFields \cup Sections |->
        IF k \in Sections
          THEN [f \in SectionFields[k] |-> OrEmpty(GetIn(body, k, f))]
        ELSE IF k \in DateFields THEN DateOrEmpty(Get(body, k))
        ELSE OrEmpty(Get(body, k))]

\* formattedData built from data, the value getPartnershipById resolved with
formattedData(data) ==
  [k \in TextFields \cup DateFields \cup Sections |->
     IF k \in Sections
       THEN [f \in SectionFields[k] |-> OrEmpty(GetIn(data, k, f))]
     ELSE IF k \in DateFields THEN DateOrEmpty(Get(data, k))
     ELSE OrEmpty(Get(data, k))]

\* the partnership records the server holds: one with every kind of field,
\* one with a name only
ServerRecords ==
  { [k \in {"name", "type", "region", "status", "signedDate", "endDate",
            "partnerInstitution", "aauContact"} |->
       CASE k = "name" -> Str("AAU-MIT exchange")
         [] k = "type" -> Str("MOU")
         [] k = "region" -> Str("North America")
         [] k = "status" -> Str("Active")
         [] k = "signedDate" -> Str("2024-03-31T00:00:00.000Z")
         [] k = "endDate" -> Str("2024-12-31T22:30:00.000-05:00")
         [] k = "partnerInstitution" ->
              [f \in {"name", "country"} |->
                 IF f = "name" THEN Str("MIT") ELSE Str("usa")]
         [] k = "aauContact" ->
              [f \in {"name", "email"} |->
                 IF f = "name" THEN Str("Abebe") ELSE Str("abebe@aau.edu.et")]],
    [k \in {"name"} |-> Str("Draft")] }

\* what API.get resolves with: the axios response, whose data is the body
\* the server sent (headers, config and request are not read by the page)
AxiosResponse(body) ==
  [k \in {"data", "status", "statusText"} |->
     CASE k = "data" -> body
       [] k = "status" -> Num("200")
       [] k = "statusText" -> Str("OK")]

(***************************************************************************)
(* EditPartnership: handleChange, getChangedFields, the toasts.            *)
(***************************************************************************)
\* the methods of the toast function exported by react-hot-toast
toastMethods ==
  {"success", "error", "loading", "custom", "promise", "dismiss", "remove"}

\* the name attributes of the inputs the model's user types in, split at "."
EditedInputs ==
  { << "name" >>, << "region" >>, << "status" >>, << "signedDate" >>,
    << "partnerInstitution", "country" >>, << "aauContact", "email" >> }

\* e.target.value of the edited inputs
TypedValues(name) ==
  IF name = << "signedDate" >> THEN {Str(""), Str("2025-01-01")}
  ELSE IF name = << "status" >> THEN {Str(""), Str("Rejected")}
  ELSE {Str(""), Str("x")}

\* the next formData of handleChange for input name and value
changed(fd, name, value) ==
  IF Len(name) = 2
    THEN [fd EXCEPT ![name[1]] = [fd[name[1]] EXCEPT ![name[2]] = value]]
    ELSE [fd EXCEPT ![name[1]] = value]

\* getChangedFields as it would be if a changed nested field put its whole
\* section in the payload
getChangedFields_WholeSection(fd, od) ==
  IF IsPrimitive(od)
    THEN [threw |-> TRUE, changes |-> << >>]
    ELSE
      LET top == {k \in DOMAIN fd : IsPrimitive(fd[k]) /\ fd[k] # Get(od, k)}
          sec == {k \in DOMAIN fd :
                    /\ ~IsPrimitive(fd[k])
                    /\ \E f \in DOMAIN fd[k] : fd[k][f] # GetIn(od, k, f)}
      IN  [threw |-> FALSE,
           changes |-> [k \in top \cup sec |-> fd[k]]]

\* getChangedFields: compareObjects(formData, originalData) reads
\* originalData[key], which throws when originalData is null; otherwise
\* changes holds the differing top-level fields and, per section, the
\* differing fields of that section
getChangedFields(fd, od) ==
  IF IsPrimitive(od)
    THEN [threw |-> TRUE, changes |-> << >>]
    ELSE
      LET top == {k \in DOMAIN fd : IsPrimitive(fd[k]) /\ fd[k] # Get(od, k)}
          Diff(k) == {f \in DOMAIN fd[k] : fd[k][f] # GetIn(od, k, f)}
          sec == {k \in DOMAIN fd : ~IsPrimitive(fd[k]) /\ Diff(k) # {}}
      IN  [threw |-> FALSE,
           changes |->
             [k \in top \cup sec |->
                IF k \in top THEN fd[k] ELSE [f \in Diff(k) |-> fd[k][f]]]]

\* the errors getPartnershipById and updatePartnership reject with
EditErrors == {"Network Error", "Request failed with status code 500"}

InitEdit ==
  /\ DashboardUnmounted
  /\ localStorage \in Stores
  /\ reset = Unmounted
  /\ wire = << APIRequest("GET", << "/partnership", "id" >>, Null, localStorage) >>
  /\ edit = [mounted |-> TRUE, path |-> "edit",
             loading |-> TRUE, submitting |-> FALSE, error |-> Null,
             originalData |-> Null, formData |-> InitialFormData,
             toast |-> [kind |-> "none", message |-> ""],
             fetched |-> Null]

\* getPartnershipById(id) resolved: the rest of the try block and finally
LoadResolved(body) ==
  /\ edit.mounted
  /\ edit.loading
  /\ wire # << >>
  /\ wire' = Tail(wire)
  /\ edit' = [edit EXCEPT
       !.formData = formattedData(AxiosResponse(body)),
       !.originalData = formattedData(AxiosResponse(body)),
       !.loading = FALSE,
       !.fetched = body]
  /\ UNCHANGED << dashboard, localStorage, reset >>

\* getPartnershipById(id) rejected: catch and finally
LoadRejected(message) ==
  /\ edit.mounted
  /\ edit.loading
  /\ wire # << >>
  /\ wire' = Tail(wire)
  /\ edit' = [edit EXCEPT
       !.error = Str(message),
       !.toast = [kind |-> "error", message |-> "Failed to load partnership details"],
       !.loading = FALSE]
  /\ UNCHANGED << dashboard, localStorage, reset >>

\* onChange of an input: the form is rendered once loading is false, and
\* its inputs stay enabled while a save is in flight
handleChange(name, value) ==
  /\ edit.mounted
  /\ ~edit.loading
  /\ changed(edit.formData, name, value) # edit.formData
  /\ edit' = [edit EXCEPT !.formData = changed(edit.formData, name, value)]
  /\ UNCHANGED << dashboard, localStorage, wire, reset >>

\* toast[kind](message): the notification shown, or the TypeError of calling
\* a method the toast function does not have
callToast(kind, message) ==
  IF kind \in toastMethods
    THEN [threw |-> FALSE, toast |-> [kind |-> kind, message |-> message]]
    ELSE [threw |-> TRUE, toast |-> [kind |-> "none", message |-> ""]]

\* the catch block of handleSubmit followed by finally (when the function
\* has one): setError(err.message), toast.error, setSubmitting(false)
submitCaught(message, hasFinally) ==
  /\ edit' = [edit EXCEPT
       !.error = Str(message),
       !.toast = callToast("error", "Failed to update partnership").toast,
       !.submitting = ~hasFinally]
  /\ wire' = wire

\* handleSubmit up to its await, or to its end when it does not await
submitStep(hasFinally) ==
  LET r    == getChangedFields(edit.formData, edit.originalData)
      info == callToast("info", "No changes to save")
  IN  /\ edit.mounted
      /\ ~edit.loading
      /\ ~edit.submitting
      /\ IF r.threw
           THEN submitCaught("Cannot read properties of null", hasFinally)
         ELSE IF DOMAIN r.changes = {}
           THEN IF info.threw
                  THEN submitCaught("toast.info is not a function", hasFinally)
                  ELSE /\ edit' = [edit EXCEPT !.error = Null,
                                               !.toast = info.toast,
                                               !.submitting = FALSE]
                       /\ wire' = wire
         ELSE /\ edit' = [edit EXCEPT !.error = Null, !.submitting = TRUE]
              /\ wire' = Append(wire,
                   APIRequest("PUT", << "/partnership", "id" >>, r.changes,
                              localStorage))
      /\ UNCHANGED << dashboard, localStorage, reset >>

\* handleSubmit as it would be without its finally block
handleSubmit_NoFinally == submitStep(FALSE)

\* the Save button's onClick; the button is disabled while submitting
handleSubmit == submitStep(TRUE)

\* updatePartnership resolved: toast.success, navigate, finally
PutResolved ==
  /\ edit.mounted
  /\ edit.submitting
  /\ wire # << >>
  /\ wire' = Tail(wire)
  /\ edit' = [edit EXCEPT
       !.toast = callToast("success", "Partnership updated successfully").toast,
       !.path = "/partnership",
       !.mounted = FALSE,
       !.submitting = FALSE]
  /\ UNCHANGED << dashboard, localStorage, reset >>

\* updatePartnership rejected: catch and finally
PutRejected(message) ==
  /\ edit.mounted
  /\ edit.submitting
  /\ wire # << >>
  /\ wire' = Tail(wire)
  /\ edit' = [edit EXCEPT
       !.error = Str(message),
       !.toast = callToast("error", "Failed to update partnership").toast,
       !.submitting = FALSE]
  /\ UNCHANGED << dashboard, localStorage, reset >>

NextEdit ==
  \/ \E body \in ServerRecords : LoadResolved(body)
  \/ \E m \in EditErrors : LoadRejected(m)
  \/ \E name \in EditedInputs : \E value \in TypedValues(name) : handleChange(name, value)
  \/ handleSubmit
  \/ PutResolved
  \/ \E m \in EditErrors : PutRejected(m)

SpecEdit == InitEdit /\ [][NextEdit]_vars

(***************************************************************************)
(* EditPartnership: properties.                                            *)
(***************************************************************************)
\* a click on Save: the only step of a rendered, idle form that keeps
\* formData and changes something else
SubmitStep ==
  /\ edit.mounted
  /\ ~edit.loading
  /\ ~edit.submitting
  /\ edit'.formData = edit.formData
  /\ edit' # edit

\* C27: after the GET succeeded, originalData holds for every form field the
\* fetched record's value for it ("" when the record lacks it, the date part
\* of a date), so the diff baseline is the loaded record
C27_BaselineIsFetchedRecord ==
  edit.fetched # Null =>
    edit.originalData = formattedData_FromBody(AxiosResponse(edit.fetched))

\* C21: the payload of every PUT the form sends holds exactly the leaf fields
\* whose form value differs from originalData at the click, top-level fields
\* under their own key and section fields under their section, nothing else
C21_PayloadIsExactDiff ==
  [][Len(wire') > Len(wire) =>
       LET p  == wire'[Len(wire')].data
           fd == edit.formData
           od == edit.originalData
       IN  /\ wire'[Len(wire')].method = "PUT"
           /\ DOMAIN p \subseteq DOMAIN fd
           /\ \A k \in DOMAIN fd :
                IF IsPrimitive(fd[k])
                  THEN /\ k \in DOMAIN p <=> fd[k] # od[k]
                       /\ k \in DOMAIN p => p[k] = fd[k]
                  ELSE /\ k \in DOMAIN p => DOMAIN p[k] # {}
                       /\ k \in DOMAIN p => DOMAIN p[k] \subseteq DOMAIN fd[k]
                       /\ \A f \in DOMAIN fd[k] :
                            /\ (k \in DOMAIN p /\ f \in DOMAIN p[k])
                                 <=> fd[k][f] # od[k][f]
                            /\ (k \in DOMAIN p /\ f \in DOMAIN p[k])
                                 => p[k][f] = fd[k][f]]_vars

\* a PUT in flight whose payload is {region: "x"}, region being the only
\* field of the form that differs from originalData
C21_Witness ==
  /\ edit.submitting
  /\ wire # << >>
  /\ wire[1].method = "PUT"
  /\ wire[1].data = [k \in {"region"} |-> Str("x")]
  /\ edit.formData = changed(edit.originalData, << "region" >>, Str("x"))

\* C22: a click on Save with no field differing from originalData sends no
\* PUT, sets no error, shows no failure toast, does not navigate and leaves
\* submitting false
C22_NoChangesIsNoOp ==
  [][(SubmitStep /\ edit.originalData # Null
                 /\ edit.formData = edit.originalData) =>
       /\ wire' = wire
       /\ edit'.error = Null
       /\ edit'.toast.kind # "error"
       /\ edit'.path = edit.path
       /\ edit'.mounted
       /\ ~edit'.submitting]_vars

\* C28: after a failed load (originalData null) a click on Save sends no PUT,
\* does not navigate, sets error and leaves submitting false; submitting is
\* true only while a PUT is awaited and false once it settles
C28_FailedLoadSubmit ==
  /\ [](edit.submitting => (wire # << >> /\ wire[1].method = "PUT"))
  /\ [][/\ (SubmitStep /\ edit.originalData = Null) =>
             /\ wire' = wire
             /\ edit'.path = edit.path
             /\ edit'.mounted
             /\ edit'.error # Null
             /\ edit'.toast.kind = "error"
             /\ ~edit'.submitting
        /\ (edit.submitting /\ Len(wire') < Len(wire)) => ~edit'.submitting
       ]_vars

\* the load failed, the user typed and clicked Save: the TypeError of the
\* diff is the error, nothing was sent, the page is still the edit page
C28_Witness ==
  /\ edit.mounted
  /\ edit.path = "edit"
  /\ ~edit.loading
  /\ edit.originalData = Null
  /\ edit.formData # InitialFormData
  /\ edit.error = Str("Cannot read properties of null")
  /\ edit.toast = [kind |-> "error", message |-> "Failed to update partnership"]
  /\ ~edit.submitting
  /\ wire = << >>

====
